---- MODULE Spec2Model ----
(***************************************************************************)
(* Model of the WebGPU grid renderer.                                      *)
(*                                                                         *)
(* Two programs share the same start-up code: src/main.js draws the grid   *)
(* once, src/unnamed/part_001 registers a fixed-interval timer whose       *)
(* callback updateGrid() draws one frame per tick, alternating between two *)
(* cell state buffers.                                                     *)
(*                                                                         *)
(* The top-level module code is modelled statement by statement (pc); the  *)
(* timer callback is one action, since a JavaScript callback runs to       *)
(* completion.  Floats that hold vertex coordinates are kept in tenths     *)
(* (-0.8 is -8); the clip-space position arithmetic of the vertex stage is *)
(* not modelled, its cell coordinate and scale are.                        *)
(***************************************************************************)
EXTENDS Integers, Sequences, FiniteSets, TLC

VARIABLES
    program,          \* which source file runs: "main" or "scheduled"
    GRID_SIZE,        \* const GRID_SIZE
    hasGpu,           \* navigator.gpu is defined
    pc,               \* next top-level statement of the module
    error,            \* message of the uncaught Error, "" if none
    dialogs,          \* dialogs on which show() was called
    adapter,          \* const adapter: "unset", "null" or "adapter"
    device,           \* const device: "unset" or "device"
    configured,       \* context.configure() was called
    vertexBuffer,     \* GPU buffer "Cell vertices"
    uniformBuffer,    \* GPU buffer "Grid Uniforms"
    cellStateArray,   \* host-side Uint32Array
    cellStateStorage, \* sequence of GPU buffers "Cell State A", "Cell State B"
    cellPipeline,     \* render pipeline was created
    bindGroups,       \* sequence of bind groups
    step,             \* let step
    timers,           \* number of setInterval registrations
    pendingFires,     \* timer fires queued on the event loop, not yet run
    submitted,        \* command buffers handed to device.queue.submit
    rendered          \* per-instance vertex stage output of the last frame

vars == <<program, GRID_SIZE, hasGpu, pc, error, dialogs, adapter, device,
          configured, vertexBuffer, uniformBuffer, cellStateArray,
          cellStateStorage, cellPipeline, bindGroups, step, timers,
          pendingFires, submitted, rendered>>

----------------------------------------------------------------------------
\* Bounds of the model

MaxGrid == 4
MaxTicks == 5
MaxPending == 2

\* Program constants
GRID_SIZE_MAIN == 4
GRID_SIZE_SCHEDULED == 32
UPDATE_INTERVAL == 200
BYTES_PER_ELEMENT == 4

GridSizes == (1..MaxGrid) \cup {GRID_SIZE_MAIN, GRID_SIZE_SCHEDULED}

\* const vertices: two triangles, 6 points of 2 coordinates, in tenths
vertices == <<-8, -8, 8, -8, 8, 8, -8, -8, 8, 8, -8, 8>>

----------------------------------------------------------------------------
\* Order of the top-level statements of each program

MainStatements ==
    <<"checkGpu", "requestAdapter", "checkAdapter", "requestDevice",
      "configure", "vertexBuffer", "cellPipeline", "uniformBuffer",
      "bindGroup", "render", "done">>

\* fault: the timer is registered before the state buffers are uploaded
MutStatementsEarlyTimer ==
    <<"checkGpu", "requestAdapter", "checkAdapter", "requestDevice",
      "configure", "vertexBuffer", "cellPipeline", "uniformBuffer",
      "cellStateArray", "setInterval", "stateA", "stateB", "bindGroups",
      "done">>

ScheduledStatements ==
    <<"checkGpu", "requestAdapter", "checkAdapter", "requestDevice",
      "configure", "vertexBuffer", "cellPipeline", "uniformBuffer",
      "cellStateArray", "stateA", "stateB", "bindGroups", "setInterval",
      "done">>

Statements(p) == IF p = "main" THEN MainStatements ELSE ScheduledStatements

IndexOf(s, x) == CHOOSE k \in 1..Len(s) : s[k] = x

\* the statement that follows statement p
After(p) == LET s == Statements(program) IN s[IndexOf(s, p) + 1]

\* the module's synchronous code is not running: it awaits, ended or threw
MainThreadIdle == pc \in {"requestAdapter", "requestDevice", "done", "halted"}

----------------------------------------------------------------------------
\* GPU buffers

NoBuffer == [label |-> "", size |-> 0, data |-> <<>>, writes |-> 0]

\* a zero-filled array of n elements (new Uint32Array(n), a fresh GPU buffer)
Zeros(n) == [k \in 1..n |-> 0]

\* typed array byteLength
byteLength(arr) == Len(arr) * BYTES_PER_ELEMENT

\* device.createBuffer({label, size}): zero-initialised storage
createBuffer(label, size) ==
    [label |-> label, size |-> size,
     data |-> Zeros(size \div BYTES_PER_ELEMENT), writes |-> 0]

\* device.queue.writeBuffer(buffer, 0, data): copies data at the time of the call
writeBuffer(buffer, data) ==
    [buffer EXCEPT !.data = [k \in 1..Len(buffer.data) |->
                                IF k <= Len(data) THEN data[k] ELSE @[k]],
                   !.writes = @ + 1]

----------------------------------------------------------------------------
\* Cell state patterns

\* the values i takes in for (let i = 0; i < length; i += 3)
EveryThirdIndices(length) == {3 * j : j \in 0..(((length + 2) \div 3) - 1)}

\* for (let i = 0; i < cellStateArray.length; i += 3) cellStateArray[i] = 1;
\* the elements the loop does not visit keep their value
FillEveryThird(arr) ==
    [k \in 1..Len(arr) |->
        IF (k - 1) \in EveryThirdIndices(Len(arr)) THEN 1 ELSE arr[k]]

\* fault: the second pattern marks the even indices
MutFillEveryOtherEven(arr) == [k \in 1..Len(arr) |-> k % 2]

\* for (let i = 0; i < cellStateArray.length; i++) cellStateArray[i] = i % 2;
FillEveryOther(arr) == [k \in 1..Len(arr) |-> (k - 1) % 2]

----------------------------------------------------------------------------
\* Shader

\* f32(n) of a non-negative integer below 2^25: exact up to 2^24, above it
\* rounded to the nearest representable value (an even number), ties to even
F32(n) ==
    IF n <= 16777216 \/ n % 2 = 0 THEN n
    ELSE IF (n + 1) % 4 = 0 THEN n + 1 ELSE n - 1

\* fault: the row is taken modulo the height instead of divided by the width
MutCellOfTransposedModulo(instance, grid) ==
    LET i == F32(instance) IN <<i % grid[1], i % grid[2]>>

\* let i = f32(instance); let cell = vec2f(i % grid.x, floor(i / grid.x));
CellOf(instance, grid) ==
    LET i == F32(instance) IN <<i % grid[1], i \div grid[1]>>

\* cellState[instance]; an index past the end of the binding is clamped by
\* the device, the model reads 0 there (never reached by either program)
ReadCell(cellState, instance) ==
    IF instance < Len(cellState) THEN cellState[instance + 1] ELSE 0

\* vertexMain of the scheduled program: cell coordinate and scale of an instance
vertexMain(instance, grid, cellState) ==
    [cell |-> CellOf(instance, grid), scale |-> ReadCell(cellState, instance)]

\* vertexMain of main.js: the position is not scaled
vertexMainUnscaled(instance, grid) ==
    [cell |-> CellOf(instance, grid), scale |-> 1]

----------------------------------------------------------------------------
\* Bind groups

\* the buffer a bind group entry refers to
Deref(ref) ==
    CASE ref = "uniformBuffer" -> uniformBuffer
      [] ref = "cellStateStorage[0]" -> cellStateStorage[1]
      [] ref = "cellStateStorage[1]" -> cellStateStorage[2]

\* device.createBindGroup({label, entries}) of the scheduled program
createBindGroup(label, stateRef) ==
    [label |-> label,
     entries |-> <<[binding |-> 0, buffer |-> "uniformBuffer"],
                   [binding |-> 1, buffer |-> stateRef]>>]

\* device.createBindGroup({label, entries}) of main.js: grid uniforms only
createBindGroupMain(label) ==
    [label |-> label,
     entries |-> <<[binding |-> 0, buffer |-> "uniformBuffer"]>>]

----------------------------------------------------------------------------
\* Command recording

Cmd(op, a, b) == [op |-> op, a |-> a, b |-> b]

\* fault: the parity of the selection is swapped
MutSelectBindGroupSwapped(s) == (s + 1) % 2

\* step % 2 in bindGroups[step % 2]
SelectBindGroup(s) == s % 2

\* vertices.length / 2
VertexCount == Len(vertices) \div 2

\* fault: one row of instances instead of the whole grid
MutInstanceCountOneRow(g) == g

\* GRID_SIZE * GRID_SIZE, second argument of pass.draw
InstanceCount(g) == g * g

\* fault: a state array of one row instead of the whole grid
MutStateLengthOneRow(g) == g

\* new Uint32Array(GRID_SIZE * GRID_SIZE)
StateLength(g) == g * g

\* fault: the draw is recorded after the pass has ended
MutRecordPassDrawAfterEnd(group) ==
    <<Cmd("beginRenderPass", "clear", "store"),
      Cmd("setPipeline", "cellPipeline", 0),
      Cmd("setBindGroup", 0, group),
      Cmd("setVertexBuffer", 0, "vertexBuffer"),
      Cmd("end", 0, 0),
      Cmd("draw", Len(vertices) \div 2, GRID_SIZE * GRID_SIZE)>>

\* the commands updateGrid records between createCommandEncoder and finish
RecordPass(group) ==
    <<Cmd("beginRenderPass", "clear", "store"),
      Cmd("setPipeline", "cellPipeline", 0),
      Cmd("setBindGroup", 0, group),
      Cmd("setVertexBuffer", 0, "vertexBuffer"),
      Cmd("draw", VertexCount, InstanceCount(GRID_SIZE)),
      Cmd("end", 0, 0)>>

\* the commands main.js records between createCommandEncoder and finish
RecordPassMain ==
    <<Cmd("beginRenderPass", "clear", "store"),
      Cmd("setPipeline", "cellPipeline", 0),
      Cmd("setVertexBuffer", 0, "vertexBuffer"),
      Cmd("setBindGroup", 0, 0),
      Cmd("draw", VertexCount, InstanceCount(GRID_SIZE)),
      Cmd("end", 0, 0)>>

\* the commands of a command buffer with the given op
Ops(commands, op) == {k \in 1..Len(commands) : commands[k].op = op}

\* the draw of a command buffer: <<vertex count, instance count>>
DrawOf(commands) ==
    LET k == CHOOSE k \in Ops(commands, "draw") : TRUE
    IN  <<commands[k].a, commands[k].b>>

\* the bind group a command buffer binds at index 0
GroupOf(commands) ==
    LET k == CHOOSE k \in Ops(commands, "setBindGroup") : TRUE
    IN  bindGroups[commands[k].b + 1]

\* what the device computes for the instances of a submitted command buffer
Execute(commands) ==
    LET group == GroupOf(commands)
        grid  == Deref(group.entries[1].buffer).data
        n     == DrawOf(commands)[2]
    IN  IF Len(group.entries) = 1
        THEN [k \in 1..n |-> vertexMainUnscaled(k - 1, grid)]
        ELSE [k \in 1..n |->
                 vertexMain(k - 1, grid, Deref(group.entries[2].buffer).data)]

----------------------------------------------------------------------------
\* State after construction

Init ==
    /\ program \in {"main", "scheduled"}
    /\ GRID_SIZE \in GridSizes
    /\ hasGpu \in BOOLEAN
    /\ pc = "checkGpu"
    /\ error = ""
    /\ dialogs = {}
    /\ adapter = "unset"
    /\ device = "unset"
    /\ configured = FALSE
    /\ vertexBuffer = NoBuffer
    /\ uniformBuffer = NoBuffer
    /\ cellStateArray = <<>>
    /\ cellStateStorage = <<>>
    /\ cellPipeline = FALSE
    /\ bindGroups = <<>>
    /\ step = 0
    /\ timers = 0
    /\ pendingFires = 0
    /\ submitted = <<>>
    /\ rendered = <<>>

env == <<program, GRID_SIZE, hasGpu>>
resources == <<vertexBuffer, uniformBuffer, cellStateArray, cellStateStorage,
               cellPipeline, bindGroups>>
frames == <<step, timers, pendingFires, submitted, rendered>>

\* throw new Error(message) at the top level: the module stops
Throw(message) == pc' = "halted" /\ error' = message

----------------------------------------------------------------------------
\* Start-up

\* navigator.gpu is missing
GpuMissing == ~hasGpu

\* if (!navigator.gpu) { webgpuDialog.show(); throw ... }
CheckGpu ==
    /\ pc = "checkGpu"
    /\ IF GpuMissing
       THEN /\ dialogs' = dialogs \cup {"webgpuDialog"}
            /\ Throw("WebGPU not supported on this browser.")
       ELSE /\ pc' = After(pc)
            /\ UNCHANGED <<dialogs, error>>
    /\ UNCHANGED <<env, adapter, device, configured, resources, frames>>

\* const adapter = await navigator.gpu.requestAdapter(): an adapter or null
RequestAdapter ==
    /\ pc = "requestAdapter"
    /\ \E a \in {"adapter", "null"} : adapter' = a
    /\ pc' = After(pc)
    /\ UNCHANGED <<env, error, dialogs, device, configured, resources, frames>>

\* fault: a null adapter is not detected
MutAdapterNeverMissing(a) == FALSE

\* !adapter
AdapterMissing(a) == a = "null"

\* if (!adapter) { adapterDialog.show(); throw ... }
CheckAdapter ==
    /\ pc = "checkAdapter"
    /\ IF AdapterMissing(adapter)
       THEN /\ dialogs' = dialogs \cup {"adapterDialog"}
            /\ Throw("No appropriate GPU Adapter found.")
       ELSE /\ pc' = After(pc)
            /\ UNCHANGED <<dialogs, error>>
    /\ UNCHANGED <<env, adapter, device, configured, resources, frames>>

\* const device = await adapter.requestDevice(): resolves, or rejects and
\* the rejection ends the module
RequestDevice ==
    /\ pc = "requestDevice"
    /\ \E ok \in BOOLEAN :
          IF ok
          THEN /\ device' = "device"
               /\ pc' = After(pc)
               /\ UNCHANGED error
          ELSE /\ Throw("requestDevice rejected")
               /\ UNCHANGED device
    /\ UNCHANGED <<env, dialogs, adapter, configured, resources, frames>>

\* context.configure({device, format})
Configure ==
    /\ pc = "configure"
    /\ configured' = TRUE
    /\ pc' = After(pc)
    /\ UNCHANGED <<env, error, dialogs, adapter, device, resources, frames>>

\* const vertexBuffer = device.createBuffer(...); writeBuffer(vertexBuffer, 0, vertices)
UploadVertices ==
    /\ pc = "vertexBuffer"
    /\ vertexBuffer' =
          writeBuffer(createBuffer("Cell vertices", byteLength(vertices)), vertices)
    /\ pc' = After(pc)
    /\ UNCHANGED <<env, error, dialogs, adapter, device, configured,
                   uniformBuffer, cellStateArray, cellStateStorage,
                   cellPipeline, bindGroups, frames>>

\* createShaderModule and createRenderPipeline
CreatePipeline ==
    /\ pc = "cellPipeline"
    /\ cellPipeline' = TRUE
    /\ pc' = After(pc)
    /\ UNCHANGED <<env, error, dialogs, adapter, device, configured,
                   vertexBuffer, uniformBuffer, cellStateArray,
                   cellStateStorage, bindGroups, frames>>

\* const uniformArray = new Float32Array([GRID_SIZE, GRID_SIZE])
uniformArray == <<F32(GRID_SIZE), F32(GRID_SIZE)>>

\* const uniformBuffer = device.createBuffer(...); writeBuffer(uniformBuffer, 0, uniformArray)
UploadUniforms ==
    /\ pc = "uniformBuffer"
    /\ uniformBuffer' =
          writeBuffer(createBuffer("Grid Uniforms", byteLength(uniformArray)),
                      uniformArray)
    /\ pc' = After(pc)
    /\ UNCHANGED <<env, error, dialogs, adapter, device, configured,
                   vertexBuffer, cellStateArray, cellStateStorage,
                   cellPipeline, bindGroups, frames>>

\* const cellStateArray = new Uint32Array(GRID_SIZE * GRID_SIZE);
\* const cellStateStorage = [createBuffer("Cell State A"), createBuffer("Cell State B")]
CreateCellState ==
    /\ pc = "cellStateArray"
    /\ cellStateArray' = Zeros(StateLength(GRID_SIZE))
    /\ cellStateStorage' =
          <<createBuffer("Cell State A", byteLength(cellStateArray')),
            createBuffer("Cell State B", byteLength(cellStateArray'))>>
    /\ pc' = After(pc)
    /\ UNCHANGED <<env, error, dialogs, adapter, device, configured,
                   vertexBuffer, uniformBuffer, cellPipeline, bindGroups,
                   frames>>

\* mark every third cell, then writeBuffer(cellStateStorage[0], 0, cellStateArray)
UploadStateA ==
    /\ pc = "stateA"
    /\ cellStateArray' = FillEveryThird(cellStateArray)
    /\ cellStateStorage' =
          [cellStateStorage EXCEPT ![1] = writeBuffer(@, cellStateArray')]
    /\ pc' = After(pc)
    /\ UNCHANGED <<env, error, dialogs, adapter, device, configured,
                   vertexBuffer, uniformBuffer, cellPipeline, bindGroups,
                   frames>>

\* mark every other cell, then writeBuffer(cellStateStorage[1], 0, cellStateArray)
UploadStateB ==
    /\ pc = "stateB"
    /\ cellStateArray' = FillEveryOther(cellStateArray)
    /\ cellStateStorage' =
          [cellStateStorage EXCEPT ![2] = writeBuffer(@, cellStateArray')]
    /\ pc' = After(pc)
    /\ UNCHANGED <<env, error, dialogs, adapter, device, configured,
                   vertexBuffer, uniformBuffer, cellPipeline, bindGroups,
                   frames>>

\* const bindGroups = [createBindGroup(... A ...), createBindGroup(... B ...)]
CreateBindGroups ==
    /\ pc = "bindGroups"
    /\ bindGroups' =
          <<createBindGroup("Cell renderer bind group A", "cellStateStorage[0]"),
            createBindGroup("Cell renderer bind group B", "cellStateStorage[1]")>>
    /\ pc' = After(pc)
    /\ UNCHANGED <<env, error, dialogs, adapter, device, configured,
                   vertexBuffer, uniformBuffer, cellStateArray,
                   cellStateStorage, cellPipeline, frames>>

\* setInterval(updateGrid, UPDATE_INTERVAL)
SetInterval ==
    /\ pc = "setInterval"
    /\ timers' = timers + 1
    /\ pc' = After(pc)
    /\ UNCHANGED <<env, error, dialogs, adapter, device, configured,
                   resources, step, pendingFires, submitted, rendered>>

\* main.js: const bindGroup = device.createBindGroup(...)
CreateBindGroupMain ==
    /\ pc = "bindGroup"
    /\ bindGroups' = <<createBindGroupMain("Cell renderer bind group")>>
    /\ pc' = After(pc)
    /\ UNCHANGED <<env, error, dialogs, adapter, device, configured,
                   vertexBuffer, uniformBuffer, cellStateArray,
                   cellStateStorage, cellPipeline, frames>>

\* main.js: createCommandEncoder ... device.queue.submit([encoder.finish()])
RenderOnce ==
    /\ pc = "render"
    /\ submitted' = Append(submitted, [step |-> step, commands |-> RecordPassMain])
    /\ rendered' = Execute(RecordPassMain)
    /\ pc' = After(pc)
    /\ UNCHANGED <<env, error, dialogs, adapter, device, configured,
                   resources, step, timers, pendingFires>>

----------------------------------------------------------------------------
\* Frame scheduler

\* the interval elapses: a call of updateGrid is queued on the event loop
TimerFire ==
    /\ timers > 0
    /\ pendingFires < MaxPending
    /\ pendingFires' = pendingFires + 1
    /\ UNCHANGED <<env, pc, error, dialogs, adapter, device, configured,
                   resources, step, timers, submitted, rendered>>

\* fault: the counter advances by two
MutNextStepSkips(s) == s + 2

\* step++
NextStep(s) == s + 1

\* fault: the callback uploads the host array into the bound state buffer again
MutUpdateGridRewritesState ==
    /\ pendingFires > 0
    /\ MainThreadIdle
    /\ step < MaxTicks
    /\ pendingFires' = pendingFires - 1
    /\ step' = NextStep(step)
    /\ LET commands == RecordPass(SelectBindGroup(step'))
       IN  /\ submitted' = Append(submitted, [step |-> step', commands |-> commands])
           /\ rendered' = Execute(commands)
    /\ cellStateStorage' =
          [cellStateStorage EXCEPT ![SelectBindGroup(step') + 1] =
              writeBuffer(@, cellStateArray)]
    /\ UNCHANGED <<env, pc, error, dialogs, adapter, device, configured,
                   vertexBuffer, uniformBuffer, cellStateArray, cellPipeline,
                   bindGroups, timers>>

\* function updateGrid(), run by the event loop for one queued timer fire
UpdateGrid ==
    /\ pendingFires > 0
    /\ MainThreadIdle
    /\ step < MaxTicks
    /\ pendingFires' = pendingFires - 1
    /\ step' = NextStep(step)
    /\ LET commands == RecordPass(SelectBindGroup(step'))
       IN  /\ submitted' = Append(submitted, [step |-> step', commands |-> commands])
           /\ rendered' = Execute(commands)
    /\ UNCHANGED <<env, pc, error, dialogs, adapter, device, configured,
                   resources, timers>>

Next ==
    \/ CheckGpu
    \/ RequestAdapter
    \/ CheckAdapter
    \/ RequestDevice
    \/ Configure
    \/ UploadVertices
    \/ CreatePipeline
    \/ UploadUniforms
    \/ CreateCellState
    \/ UploadStateA
    \/ UploadStateB
    \/ CreateBindGroups
    \/ SetInterval
    \/ CreateBindGroupMain
    \/ RenderOnce
    \/ TimerFire
    \/ UpdateGrid

Spec == Init /\ [][Next]_vars

----------------------------------------------------------------------------
\* Properties

\* the scheduled renderer
Scheduled == program = "scheduled"

\* the label of the state buffer bound by the last submitted frame
BoundStateBuffer ==
    IF submitted = <<>> THEN "none"
    ELSE LET group == GroupOf(submitted[Len(submitted)].commands)
         IN  IF Len(group.entries) < 2 THEN "none"
             ELSE Deref(group.entries[2].buffer).label

\* the state buffer the claim names for n ticks
ParityBuffer(n) == IF n % 2 = 1 THEN "Cell State B" ELSE "Cell State A"

\* C1 as stated: in the scheduled renderer after n ticks, n = 0 included,
\* the bound state buffer is B when n is odd and A when n is even.
C1_BoundByParityFromZero ==
    (Scheduled /\ timers > 0) => BoundStateBuffer = ParityBuffer(step)

\* C1, amended: every tick increments the frame counter by exactly 1 and
\* binds BindingSet[counter mod 2]; after n >= 1 ticks the bound state buffer
\* is B when n is odd and A when n is even; before the first tick no binding
\* set is bound.
C1_BoundByParity ==
    /\ [](Scheduled =>
             /\ step >= 1 => BoundStateBuffer = ParityBuffer(step)
             /\ step = 0 => BoundStateBuffer = "none")
    /\ [][step' # step =>
             /\ step' = step + 1
             /\ BoundStateBuffer' = ParityBuffer(step')]_vars

C1_Witness ==
    /\ Scheduled /\ step = 3 /\ Len(submitted) = 3
    /\ BoundStateBuffer = "Cell State B"
    /\ Deref(GroupOf(submitted[2].commands).entries[2].buffer).label = "Cell State A"

\* the grid parameters a bind group pairs its state buffer with
GridOf(group) == Deref(group.entries[1].buffer).data

\* a bind group pairs the grid parameters with a state buffer of width x height cells
LengthMatches(group) ==
    /\ Len(group.entries) = 2
    /\ group.entries[1].buffer = "uniformBuffer"
    /\ Len(GridOf(group)) = 2
    /\ LET buffer == Deref(group.entries[2].buffer)
       IN  /\ Len(buffer.data) = GridOf(group)[1] * GridOf(group)[2]
           /\ buffer.size = BYTES_PER_ELEMENT * GRID_SIZE * GRID_SIZE

UnsupportedHardware ==
    {"WebGPU not supported on this browser.", "No appropriate GPU Adapter found."}

\* no step after adapter acquisition has happened
NothingAfterAdapter ==
    /\ device = "unset"
    /\ ~configured
    /\ vertexBuffer = NoBuffer /\ uniformBuffer = NoBuffer
    /\ cellStateArray = <<>> /\ cellStateStorage = <<>>
    /\ ~cellPipeline
    /\ bindGroups = <<>>
    /\ timers = 0 /\ pendingFires = 0 /\ step = 0
    /\ submitted = <<>> /\ rendered = <<>>

\* C3: without navigator.gpu, or when requestAdapter yields null, start-up
\* ends with an UnsupportedHardware error and no later step ever happens.
C3_NoAdapterHalts ==
    (~hasGpu \/ adapter = "null") =>
        /\ NothingAfterAdapter
        /\ pc \in {"checkGpu", "checkAdapter", "halted"}
        /\ pc = "halted" => error \in UnsupportedHardware
        /\ pc # "halted" => error = ""

C3_Witness ==
    /\ adapter = "null" /\ pc = "halted"
    /\ error = "No appropriate GPU Adapter found."
    /\ "adapterDialog" \in dialogs

\* C4: every draw of every submitted frame has instance count
\* width x height and vertex count 6, the number of uploaded vertices.
C4_DrawCounts ==
    \A k \in 1..Len(submitted) :
        LET commands == submitted[k].commands
        IN  /\ Cardinality(Ops(commands, "draw")) = 1
            /\ \A d \in Ops(commands, "draw") :
                  /\ commands[d].a = 6
                  /\ 2 * commands[d].a = Len(vertexBuffer.data)
                  /\ commands[d].b = GRID_SIZE * GRID_SIZE
                  /\ commands[d].b = uniformBuffer.data[1] * uniformBuffer.data[2]

C4_Witness ==
    /\ Scheduled /\ GRID_SIZE = 3 /\ Len(submitted) = 4
    /\ DrawOf(submitted[4].commands) = <<6, 9>>

\* C5: submitting a frame leaves the vertex geometry, the grid parameters,
\* both state buffers and the binding sets unchanged; a tick changes only the
\* frame counter (and the record of frames); after start-up every buffer has
\* been written exactly once.
C5_FramesMutateNothing ==
    /\ [][Len(submitted') # Len(submitted) =>
             UNCHANGED <<vertexBuffer, uniformBuffer, cellStateArray,
                         cellStateStorage, cellPipeline, bindGroups>>]_vars
    /\ [][step' # step =>
             /\ Len(submitted') = Len(submitted) + 1
             /\ UNCHANGED <<env, pc, error, dialogs, adapter, device,
                            configured, timers>>]_vars
    /\ [](pc = "done" =>
             /\ vertexBuffer.writes = 1 /\ vertexBuffer.data = vertices
             /\ uniformBuffer.writes = 1
             /\ \A k \in 1..Len(cellStateStorage) : cellStateStorage[k].writes = 1)

C5_Witness ==
    /\ Scheduled /\ step = 4 /\ Len(submitted) = 4
    /\ cellStateStorage[1].writes = 1 /\ cellStateStorage[2].writes = 1

\* the cells of the grid
Cells == (0..(GRID_SIZE - 1)) \X (0..(GRID_SIZE - 1))

\* C6: the instances of a drawn frame map one-to-one onto the cells of the
\* grid: width x height instances, every cell covered, no cell twice.
C6_InstancesCoverCells ==
    rendered # <<>> =>
        /\ Len(rendered) = GRID_SIZE * GRID_SIZE
        /\ {rendered[k].cell : k \in 1..Len(rendered)} = Cells
        /\ \A j, k \in 1..Len(rendered) :
              rendered[j].cell = rendered[k].cell => j = k
        /\ \A k \in 1..Len(rendered) :
              rendered[k].cell = <<(k - 1) % GRID_SIZE, (k - 1) \div GRID_SIZE>>

C6_Witness ==
    /\ program = "main" /\ GRID_SIZE = 4 /\ Len(rendered) = 16
    /\ rendered[6].cell = <<1, 1>> /\ rendered[16].cell = <<3, 3>>

\* the contents of state buffer A (k = 1) or B (k = 2), by cell index
StateAt(k, i) == cellStateStorage[k].data[i + 1]

CellIndices == 0..(GRID_SIZE * GRID_SIZE - 1)

\* C7 as stated: after start-up buffer A holds 1 exactly at the indices with
\* i mod 3 = 0 and buffer B holds 1 exactly at the indices with i mod 2 = 0.
C7_PatternsBEven ==
    (Scheduled /\ pc = "done") =>
        \A i \in CellIndices :
            /\ StateAt(1, i) = (IF i % 3 = 0 THEN 1 ELSE 0)
            /\ StateAt(2, i) = (IF i % 2 = 0 THEN 1 ELSE 0)

\* C7, amended: after start-up buffer A holds 1 exactly at the indices with
\* i mod 3 = 0 and buffer B holds 1 exactly at the indices with i mod 2 = 1
\* (the odd indices); every stored value is 0 or 1.
C7_Patterns ==
    (Scheduled /\ pc = "done") =>
        /\ Len(cellStateStorage) = 2
        /\ \A k \in 1..2 : Len(cellStateStorage[k].data) = GRID_SIZE * GRID_SIZE
        /\ \A i \in CellIndices :
              /\ StateAt(1, i) = (IF i % 3 = 0 THEN 1 ELSE 0)
              /\ StateAt(2, i) = (IF i % 2 = 1 THEN 1 ELSE 0)
              /\ StateAt(1, i) \in {0, 1} /\ StateAt(2, i) \in {0, 1}

C7_Witness ==
    /\ Scheduled /\ pc = "done" /\ GRID_SIZE = 32
    /\ StateAt(1, 3) = 1 /\ StateAt(1, 4) = 0
    /\ StateAt(2, 0) = 0 /\ StateAt(2, 1023) = 1

\* C8: in the scheduled renderer every tick that was started has submitted
\* its frame before another queued timer fire is processed, and the k-th
\* submitted frame was recorded with counter value k.
C8_TicksInOrder ==
    Scheduled =>
        /\ Len(submitted) = step
        /\ \A k \in 1..Len(submitted) : submitted[k].step = k
        /\ pendingFires > 0 => timers > 0

C8_Witness ==
    /\ Scheduled /\ step = 3 /\ pendingFires = 2 /\ submitted[3].step = 3

\* the order of the commands of a frame
OpsInOrder(commands) == [k \in 1..Len(commands) |-> commands[k].op]

\* C9: every frame of the scheduled renderer is the same command sequence,
\* a clearing render pass, pipeline, binding set, vertex buffer, one draw,
\* end of pass, and is then submitted: one draw and one submit per tick.
C9_FixedSequence ==
    Scheduled =>
        /\ Len(submitted) = step
        /\ \A k \in 1..Len(submitted) :
              LET commands == submitted[k].commands
              IN  /\ OpsInOrder(commands) =
                        <<"beginRenderPass", "setPipeline", "setBindGroup",
                          "setVertexBuffer", "draw", "end">>
                  /\ commands[1].a = "clear"
                  /\ commands[3].b = k % 2
                  /\ Cardinality(Ops(commands, "draw")) = 1

C9_Witness ==
    /\ Scheduled /\ step = 2 /\ Len(submitted) = 2
    /\ submitted[1].commands[3].b = 1 /\ submitted[2].commands[3].b = 0

\* every upload and both binding sets of the scheduled renderer are in place
Populated ==
    /\ vertexBuffer.writes >= 1 /\ vertexBuffer.data = vertices
    /\ uniformBuffer.writes >= 1 /\ uniformBuffer.data = <<GRID_SIZE, GRID_SIZE>>
    /\ Len(cellStateStorage) = 2
    /\ \A k \in 1..Len(cellStateStorage) : cellStateStorage[k].writes >= 1
    /\ Len(bindGroups) = 2
    /\ cellPipeline /\ configured

\* C10: in the scheduled renderer the timer is registered at most once and
\* only after every upload and both binding sets; no timer fire is queued and
\* no frame is drawn before that or while no timer is registered.
C10_NoFrameBeforeInit ==
    Scheduled =>
        /\ timers <= 1
        /\ timers = 1 => Populated
        /\ (pendingFires > 0 \/ step > 0 \/ submitted # <<>>) =>
              (timers = 1 /\ Populated /\ pc = "done")

C10_Witness ==
    /\ Scheduled /\ timers = 1 /\ step = 1 /\ Len(submitted) = 1 /\ Populated

====
